---- MODULE Spec2Model ----
(***************************************************************************)
(* Deck-composition core of deck-maker-k (src/src/App.vue, <script setup>). *)
(*                                                                         *)
(* Strings that the code takes apart (card ids, deck codes) are sequences  *)
(* of one-character strings, so that split('/') and join('/') are          *)
(* computed character by character.  Strings the code only stores or       *)
(* compares (deck name, messages) are TLA+ strings; the Japanese literals  *)
(* of the source are written in ASCII.                                     *)
(***************************************************************************)
EXTENDS Integers, Sequences, FiniteSets, TLC

VARIABLES
    availableCards,     \* ref([])  the catalog, a sequence of cards
    deckCards,          \* ref([])  sequence of [card, count]
    deckName,           \* ref("...") deck name
    isLoading,          \* ref(true)
    error,              \* ref(null)
    deckCode,           \* ref("")  generated deck code
    showDeckCodeModal,  \* ref(false)
    importDeckCode,     \* ref("")  v-model of the import textarea
    localStorage,       \* the two keys deckCards_k and deckName_k
    pc,                 \* position of the startup sequence
    jobs,               \* watcher callbacks queued for the next flush
    alerts,             \* messages shown (alert) by the last task
    lastOp,             \* history: the last task and its argument
    addRun,             \* history: current run of addCardToDeck calls for one card
    touched,            \* history: a user operation has run in this session
    snapshot0,          \* history: localStorage as found at startup, until the user acts
    prevCount,          \* history: copies of the card of lastOp.arg before that task
    restoreFailed,      \* history: the saved deck could not be parsed at startup
    decoded,            \* result of the last direct decodeDeckCode call
    filterCriteria,     \* ref({text, kind, type, tags})
    filtered,           \* result of the last filterCards call
    compared            \* results of the last comparator calls

vars == << availableCards, deckCards, deckName, isLoading, error, deckCode,
           showDeckCodeModal, importDeckCode, localStorage, pc, jobs, alerts,
           lastOp, addRun, touched, snapshot0, prevCount, restoreFailed,
           decoded, filterCriteria, filtered, compared >>

-----------------------------------------------------------------------------
(* Bounds of the model *)

\* number of filler cards in the catalog besides the cards A and B
NumFillers == 15
\* longest deck code typed by the user, in tokens
MaxTokens == 1
\* longest deck code given to decodeDeckCode directly, in characters
MaxCodeChars == 5
\* longest tracked run of addCardToDeck calls for one card
MaxRun == 5
\* most entries of the small decks given to encodeDeckCode directly
MaxTestEntries == 2

(* Program constants *)

\* "デッキは60枚までです！": the deck holds at most 60 cards
MaxDeckTotal == 60
\* at most 4 copies of one card
MaxCopies == 4

-----------------------------------------------------------------------------
(* Cards and the catalog served as cards.json *)

Slash == "/"

FillerChars == << "a", "b", "c", "d", "e", "f", "g", "h", "i", "j",
                  "k", "l", "m", "n", "o", "p", "q", "r", "s", "t" >>

idA == << "A" >>
idB == << "B" >>
\* an id that no catalog card has
idZ == << "Z" >>

\* card.type is one type or an array of types; card.tags is an array, or
\* is missing
TypeOne(v) == [array |-> FALSE, items |-> << >>, value |-> v]
TypeList(s) == [array |-> TRUE, items |-> s, value |-> ""]
NoType == TypeOne("")
TagList(s) == [array |-> TRUE, items |-> s]
NoTags == [array |-> FALSE, items |-> << >>]

Card(id, name, kind, type, tags) ==
    [id |-> id, name |-> name, kind |-> kind, type |-> type, tags |-> tags]

cardA == Card(idA, << "K", "a" >>, "Artist", TypeOne("red"), TagList(<< << "V", "w" >> >>))
cardB == Card(idB, << "a", "b" >>, "Song", TypeList(<< "blue", "red" >>), NoTags)
Filler(i) ==
    Card(<< "F", FillerChars[i] >>, << "f", FillerChars[i] >>, "Magic",
         TypeOne("instant"), TagList(<< >>))

\* the data of cards.json: A, B, then the fillers
Catalog == << cardA, cardB >> \o [i \in 1..NumFillers |-> Filler(i)]

DefaultDeckName == "New deck"
Names == { DefaultDeckName, "My deck" }

CapacityMsg == "deck is limited to 60 cards"
NoValidCardMsg == "no valid card found"
LoadDeckFailedMsg == "failed to load the saved deck"
LoadCardsFailedMsg == "failed to load the card data; reload the page"
Null == "null"

-----------------------------------------------------------------------------
(* localStorage items.  An item is absent, or holds a string; the string   *)
(* stored under deckCards_k is represented by whether JSON.parse accepts   *)
(* it and by the array of {id, count} it then denotes.                     *)

NoItem == [present |-> FALSE, parses |-> FALSE, value |-> << >>]
JsonItem(v) == [present |-> TRUE, parses |-> TRUE, value |-> v]
CorruptItem == [present |-> TRUE, parses |-> FALSE, value |-> << >>]
NoName == [present |-> FALSE, value |-> ""]
NameItem(n) == [present |-> TRUE, value |-> n]

-----------------------------------------------------------------------------
(* Pure helpers *)

Range(s) == { s[i] : i \in 1..Len(s) }

RECURSIVE SumCounts(_)
SumCounts(deck) ==
    IF deck = << >> THEN 0 ELSE deck[1].count + SumCounts(Tail(deck))

\* computed totalDeckCards: reduce((sum, item) => sum + item.count, 0)
totalDeckCards == SumCounts(deckCards)

\* Array.prototype.findIndex on the deck by card id; 0 when there is none
findIndex(deck, id) ==
    IF \E i \in 1..Len(deck) : deck[i].card.id = id
    THEN CHOOSE i \in 1..Len(deck) :
             /\ deck[i].card.id = id
             /\ \A j \in 1..(i - 1) : deck[j].card.id # id
    ELSE 0

\* availableCards.value.find(c => c.id === id), as a sequence of 0 or 1 card
findCard(cards, id) ==
    IF \E i \in 1..Len(cards) : cards[i].id = id
    THEN << cards[CHOOSE i \in 1..Len(cards) :
                      /\ cards[i].id = id
                      /\ \A j \in 1..(i - 1) : cards[j].id # id] >>
    ELSE << >>

\* Array.prototype.filter
RECURSIVE SelectDeck(_, _)
SelectDeck(deck, id) ==
    IF deck = << >> THEN << >>
    ELSE IF deck[1].card.id # id
         THEN << deck[1] >> \o SelectDeck(Tail(deck), id)
         ELSE SelectDeck(Tail(deck), id)

\* the copies of the card id in a deck, 0 when it has no entry
countOf(deck, id) ==
    LET i == findIndex(deck, id) IN IF i > 0 THEN deck[i].count ELSE 0

\* the set of (id, count) pairs of a deck
Pairs(deck) == { << deck[i].card.id, deck[i].count >> : i \in 1..Len(deck) }

-----------------------------------------------------------------------------
(* Deck code codec *)

\* String.prototype.split('/'): the pieces between the delimiters, so that
\* "" gives one empty token and n delimiters give n + 1 tokens
split(s) ==
    LET cuts == { i \in 1..Len(s) : s[i] = Slash }
        n == Cardinality(cuts) + 1
        cut(k) == CHOOSE i \in cuts : Cardinality({ j \in cuts : j < i }) = k - 1
    IN  [k \in 1..n |->
            SubSeq(s, IF k = 1 THEN 1 ELSE cut(k - 1) + 1,
                      IF k = n THEN Len(s) ELSE cut(k) - 1)]

\* Array.prototype.join('/'): the elements with one delimiter between
\* neighbours (computed by halves, which keeps the evaluation shallow)
RECURSIVE join(_)
join(ids) ==
    IF ids = << >> THEN << >>
    ELSE IF Len(ids) = 1 THEN ids[1]
         ELSE LET h == Len(ids) \div 2
              IN  join(SubSeq(ids, 1, h)) \o << Slash >> \o join(SubSeq(ids, h + 1, Len(ids)))

\* Array(n).fill(x)
fill(n, x) == [i \in 1..n |-> x]

\* deck.flatMap(item => Array(item.count).fill(item.card.id))
RECURSIVE flatMapIds(_)
flatMapIds(deck) ==
    IF deck = << >> THEN << >>
    ELSE fill(deck[1].count, deck[1].card.id) \o flatMapIds(Tail(deck))

\* mutant: every id is written once, whatever its count
encodeDeckCode_once(deck) ==
    join([i \in 1..Len(deck) |-> deck[i].card.id])

encodeDeckCode(deck) == join(flatMapIds(deck))

\* cardCounts after cardIds.forEach(id => cardCounts.set(id, (cardCounts.get(id) || 0) + 1)):
\* a Map iterates in insertion order, so its entries are the distinct ids in
\* the order of their first occurrence, each with the number of times it was set
\* mutant: cardCounts.set(id, 1), the previous count is not read
countIds_setOne(ids) ==
    LET firsts == { k \in 1..Len(ids) : \A j \in 1..(k - 1) : ids[j] # ids[k] }
        kth(i) == CHOOSE k \in firsts : Cardinality({ j \in firsts : j < k }) = i - 1
    IN  [i \in 1..Cardinality(firsts) |-> [id |-> ids[kth(i)], count |-> 1]]

\* mutant: an id is counted over its first run of consecutive tokens only
countIds_firstRun(ids) ==
    LET firsts == { k \in 1..Len(ids) : \A j \in 1..(k - 1) : ids[j] # ids[k] }
        kth(i) == CHOOSE k \in firsts : Cardinality({ j \in firsts : j < k }) = i - 1
    IN  [i \in 1..Cardinality(firsts) |->
            [id |-> ids[kth(i)],
             count |-> Cardinality({ j \in kth(i)..Len(ids) :
                                       \A m \in kth(i)..j : ids[m] = ids[kth(i)] })]]

countIds(ids) ==
    LET firsts == { k \in 1..Len(ids) : \A j \in 1..(k - 1) : ids[j] # ids[k] }
        kth(i) == CHOOSE k \in firsts : Cardinality({ j \in firsts : j < k }) = i - 1
    IN  [i \in 1..Cardinality(firsts) |->
            [id |-> ids[kth(i)],
             count |-> Cardinality({ j \in 1..Len(ids) : ids[j] = ids[kth(i)] })]]

RECURSIVE restoreCards(_, _)
restoreCards(m, cards) ==
    IF m = << >> THEN << >>
    ELSE LET card == findCard(cards, m[1].id)
         IN  (IF card # << >>
              THEN << [card |-> card[1], count |-> m[1].count] >>
              ELSE << >>) \o restoreCards(Tail(m), cards)

decodeDeckCode(code) ==
    LET cardIds == split(code)
        cardCounts == countIds(cardIds)
    IN  restoreCards(cardCounts, availableCards)

-----------------------------------------------------------------------------
(* Persistence *)

\* deck.map(item => ({ id: item.card.id, count: item.count }))
simpleDeck(deck) == [i \in 1..Len(deck) |-> [id |-> deck[i].card.id, count |-> deck[i].count]]

\* a watcher is queued when its source is triggered and runs at the next flush
Idle == jobs = { }

NoRun == [id |-> << >>, n |-> 0, start |-> 0]

\* filterCriteria as constructed: ref({ text: "", kind: [], type: [], tags: [] })
NoCriteria == [text |-> << >>, kind |-> << >>, type |-> << >>, tags |-> << >>]

NotCompared ==
    [pool |-> 0, deck |-> 0, natural |-> 0, kind |-> 0, type |-> 0, laws |-> << >>,
     done |-> FALSE]

\* the filter is not touched and no card is compared
ViewFrame == UNCHANGED << filterCriteria, filtered, compared >>

-----------------------------------------------------------------------------
(* Initial state: the component after setup(), before it is mounted *)

\* snapshots a previous session may have left under deckCards_k
SavedDecks ==
    { NoItem, CorruptItem,
      JsonItem(<< >>),
      JsonItem(<< [id |-> idA, count |-> 2] >>),
      JsonItem(<< [id |-> idZ, count |-> 1], [id |-> idB, count |-> 3] >>) }

SavedNames == { NoName, NameItem("My deck") }

InitRefs ==
    /\ availableCards = << >>
    /\ deckCards = << >>
    /\ deckName = DefaultDeckName
    /\ isLoading = TRUE
    /\ error = Null
    /\ deckCode = << >>
    /\ showDeckCodeModal = FALSE
    /\ importDeckCode = << >>
    /\ jobs = { }
    /\ alerts = << >>
    /\ addRun = NoRun
    /\ touched = FALSE
    /\ prevCount = 0
    /\ restoreFailed = FALSE
    /\ decoded = << >>
    /\ filterCriteria = NoCriteria
    /\ filtered = << >>
    /\ compared = NotCompared

Init ==
    /\ InitRefs
    /\ pc = "setup"
    /\ lastOp = [op |-> "setup", arg |-> << >>]
    /\ localStorage \in [deckCards_k : SavedDecks, deckName_k : SavedNames]
    /\ snapshot0 = localStorage

-----------------------------------------------------------------------------
(* Startup: onMounted runs loadCards up to its first await, then            *)
(* loadDeckFromLocalStorage; the rest of loadCards runs when the fetch     *)
(* settles.                                                                *)

\* simpleDeck.map(item => card ? {card, count} : null).filter(item => item !== null)
RECURSIVE restoreSaved(_, _)
restoreSaved(simple, cards) ==
    IF simple = << >> THEN << >>
    ELSE LET card == findCard(cards, simple[1].id)
         IN  (IF card # << >>
              THEN << [card |-> card[1], count |-> simple[1].count] >>
              ELSE << >>) \o restoreSaved(Tail(simple), cards)

loadDeckFromLocalStorage ==
    LET savedDeck == localStorage.deckCards_k
        savedName == localStorage.deckName_k
        newName == IF savedName.present /\ savedName.value # ""
                   THEN savedName.value ELSE deckName
        nameJob == IF newName # deckName THEN { "deckName" } ELSE { }
    IN  /\ deckName' = newName
        /\ IF savedDeck.present /\ savedDeck.parses
           THEN /\ deckCards' = restoreSaved(savedDeck.value, availableCards)
                /\ jobs' = jobs \cup nameJob \cup { "deckCards" }
                /\ alerts' = << >>
                /\ UNCHANGED localStorage
           ELSE IF savedDeck.present
           THEN \* JSON.parse throws: handleError, then both keys are removed
                /\ alerts' = << LoadDeckFailedMsg >>
                /\ localStorage' = [deckCards_k |-> NoItem, deckName_k |-> NoName]
                /\ jobs' = jobs \cup nameJob
                /\ UNCHANGED deckCards
           ELSE /\ alerts' = << >>
                /\ jobs' = jobs \cup nameJob
                /\ UNCHANGED << deckCards, localStorage >>

onMounted ==
    /\ pc = "setup"
    /\ pc' = "fetching"
    \* loadCards, up to await fetch(...)
    /\ isLoading' = TRUE
    /\ error' = Null
    /\ loadDeckFromLocalStorage
    /\ UNCHANGED << availableCards, deckCode, showDeckCodeModal, importDeckCode >>

\* loadCards after the await, response.ok and response.json() succeeding
loadCardsResolved ==
    /\ pc = "fetching"
    /\ pc' = "loaded"
    /\ availableCards' = Catalog
    /\ isLoading' = FALSE
    /\ alerts' = << >>
    /\ UNCHANGED << deckCards, deckName, error, deckCode, showDeckCodeModal,
                    importDeckCode, localStorage, jobs >>

\* loadCards after the await, the fetch or the parse failing: catch, finally
\* mutant: the catch block does not set the error
loadCardsRejected_noError ==
    /\ pc = "fetching"
    /\ pc' = "failed"
    /\ isLoading' = FALSE
    /\ alerts' = << >>
    /\ UNCHANGED << availableCards, deckCards, deckName, error, deckCode,
                    showDeckCodeModal, importDeckCode, localStorage, jobs >>

loadCardsRejected ==
    /\ pc = "fetching"
    /\ pc' = "failed"
    /\ error' = LoadCardsFailedMsg
    /\ isLoading' = FALSE
    /\ alerts' = << >>
    /\ UNCHANGED << availableCards, deckCards, deckName, deckCode, showDeckCodeModal,
                    importDeckCode, localStorage, jobs >>

-----------------------------------------------------------------------------
(* Watchers *)

\* mutant: the items are stored as they are, card objects included
saveDeckToLocalStorage_wholeItems(deck) ==
    localStorage' = [localStorage EXCEPT !.deckCards_k = JsonItem(deck)]

saveDeckToLocalStorage(deck) ==
    localStorage' = [localStorage EXCEPT !.deckCards_k = JsonItem(simpleDeck(deck))]

\* watch(deckCards, newDeck => saveDeckToLocalStorage(newDeck), {deep: true})
watchDeckCards ==
    /\ "deckCards" \in jobs
    /\ jobs' = jobs \ { "deckCards" }
    /\ saveDeckToLocalStorage(deckCards)
    /\ UNCHANGED << availableCards, deckCards, deckName, isLoading, error, deckCode,
                    showDeckCodeModal, importDeckCode, pc, alerts >>

\* watch(deckName, newName => localStorage.setItem("deckName_k", newName))
watchDeckName ==
    /\ "deckName" \in jobs
    /\ jobs' = jobs \ { "deckName" }
    /\ localStorage' = [localStorage EXCEPT !.deckName_k = NameItem(deckName)]
    /\ UNCHANGED << availableCards, deckCards, deckName, isLoading, error, deckCode,
                    showDeckCodeModal, importDeckCode, pc, alerts >>

-----------------------------------------------------------------------------
(* Deck operations *)

DeckOpFrame ==
    UNCHANGED << availableCards, deckName, isLoading, error, deckCode,
                 showDeckCodeModal, importDeckCode, localStorage, pc >>

\* addCardToDeck with another capacity test and another copy limit
addCardVariant(card, full, copies) ==
    /\ IF full
       THEN /\ alerts' = << CapacityMsg >>
            /\ UNCHANGED << deckCards, jobs >>
       ELSE LET existingCardIndex == findIndex(deckCards, card.id)
            IN  /\ alerts' = << >>
                /\ IF existingCardIndex > 0
                   THEN IF deckCards[existingCardIndex].count < copies
                        THEN /\ deckCards' = [deckCards EXCEPT
                                    ![existingCardIndex].count = @ + 1]
                             /\ jobs' = jobs \cup { "deckCards" }
                        ELSE UNCHANGED << deckCards, jobs >>
                   ELSE /\ deckCards' = Append(deckCards, [card |-> card, count |-> 1])
                        /\ jobs' = jobs \cup { "deckCards" }
    /\ DeckOpFrame

\* mutant: the total is not tested
addCardToDeck_noTotalTest(card) == addCardVariant(card, FALSE, MaxCopies)

\* mutant: the total is tested with > in place of >=
addCardToDeck_offByOne(card) ==
    addCardVariant(card, totalDeckCards > MaxDeckTotal, MaxCopies)

\* mutant: the copy limit is tested with <= in place of <
addCardToDeck_fiveCopies(card) ==
    addCardVariant(card, totalDeckCards >= MaxDeckTotal, MaxCopies + 1)

\* mutant: a tapped card is pushed without looking for its entry
addCardToDeck_alwaysPush(card) ==
    /\ IF totalDeckCards >= MaxDeckTotal
       THEN /\ alerts' = << CapacityMsg >>
            /\ UNCHANGED << deckCards, jobs >>
       ELSE /\ alerts' = << >>
            /\ deckCards' = Append(deckCards, [card |-> card, count |-> 1])
            /\ jobs' = jobs \cup { "deckCards" }
    /\ DeckOpFrame

addCardToDeck(card) ==
    /\ IF totalDeckCards >= MaxDeckTotal
       THEN /\ alerts' = << CapacityMsg >>
            /\ UNCHANGED << deckCards, jobs >>
       ELSE LET existingCardIndex == findIndex(deckCards, card.id)
            IN  /\ alerts' = << >>
                /\ IF existingCardIndex > 0
                   THEN IF deckCards[existingCardIndex].count < MaxCopies
                        THEN /\ deckCards' = [deckCards EXCEPT
                                    ![existingCardIndex].count = @ + 1]
                             /\ jobs' = jobs \cup { "deckCards" }
                        ELSE UNCHANGED << deckCards, jobs >>
                   ELSE /\ deckCards' = Append(deckCards, [card |-> card, count |-> 1])
                        /\ jobs' = jobs \cup { "deckCards" }
    /\ DeckOpFrame

\* mutant: the count is raised without testing it against 4
incrementCardCount_noCopyTest(cardId) ==
    /\ IF totalDeckCards >= MaxDeckTotal
       THEN /\ alerts' = << CapacityMsg >>
            /\ UNCHANGED << deckCards, jobs >>
       ELSE LET i == findIndex(deckCards, cardId)
            IN  /\ alerts' = << >>
                /\ IF i > 0
                   THEN /\ deckCards' = [deckCards EXCEPT ![i].count = @ + 1]
                        /\ jobs' = jobs \cup { "deckCards" }
                   ELSE UNCHANGED << deckCards, jobs >>
    /\ DeckOpFrame

incrementCardCount(cardId) ==
    /\ IF totalDeckCards >= MaxDeckTotal
       THEN /\ alerts' = << CapacityMsg >>
            /\ UNCHANGED << deckCards, jobs >>
       ELSE LET i == findIndex(deckCards, cardId)
            IN  /\ alerts' = << >>
                /\ IF i > 0 /\ deckCards[i].count < MaxCopies
                   THEN /\ deckCards' = [deckCards EXCEPT ![i].count = @ + 1]
                        /\ jobs' = jobs \cup { "deckCards" }
                   ELSE UNCHANGED << deckCards, jobs >>
    /\ DeckOpFrame

\* mutant: the filter keeps the entries of the card (=== for !==)
removeCardFromDeck_keepsCard(cardId) ==
    /\ deckCards' = SelectSeq(deckCards, LAMBDA item : item.card.id = cardId)
    /\ jobs' = jobs \cup { "deckCards" }
    /\ alerts' = << >>
    /\ DeckOpFrame

removeCardFromDeck(cardId) ==
    /\ deckCards' = SelectDeck(deckCards, cardId)
    /\ jobs' = jobs \cup { "deckCards" }
    /\ alerts' = << >>
    /\ DeckOpFrame

\* mutant: the last copy is taken off without removing the entry
decrementCardCount_toZero(cardId) ==
    LET i == findIndex(deckCards, cardId)
    IN  IF i > 0 /\ deckCards[i].count >= 1
        THEN /\ deckCards' = [deckCards EXCEPT ![i].count = @ - 1]
             /\ jobs' = jobs \cup { "deckCards" }
             /\ alerts' = << >>
             /\ DeckOpFrame
        ELSE /\ alerts' = << >>
             /\ UNCHANGED << deckCards, jobs >>
             /\ DeckOpFrame

decrementCardCount(cardId) ==
    LET i == findIndex(deckCards, cardId)
    IN  IF i > 0 /\ deckCards[i].count > 1
        THEN /\ deckCards' = [deckCards EXCEPT ![i].count = @ - 1]
             /\ jobs' = jobs \cup { "deckCards" }
             /\ alerts' = << >>
             /\ DeckOpFrame
        ELSE IF i > 0 /\ deckCards[i].count = 1
        THEN removeCardFromDeck(cardId)
        ELSE /\ alerts' = << >>
             /\ UNCHANGED << deckCards, jobs >>
             /\ DeckOpFrame

\* mutant: the deck name is not reset
resetDeck_keepsName(confirmed) ==
    /\ IF confirmed
       THEN /\ deckCards' = << >>
            /\ localStorage' = [deckCards_k |-> NoItem, deckName_k |-> NoName]
            /\ jobs' = jobs \cup { "deckCards" }
            /\ UNCHANGED deckName
       ELSE UNCHANGED << deckCards, deckName, localStorage, jobs >>
    /\ alerts' = << >>
    /\ UNCHANGED << availableCards, isLoading, error, deckCode, showDeckCodeModal,
                    importDeckCode, pc >>

\* confirmed: the answer given to confirm(...)
resetDeck(confirmed) ==
    /\ IF confirmed
       THEN /\ deckCards' = << >>
            /\ deckName' = DefaultDeckName
            /\ localStorage' = [deckCards_k |-> NoItem, deckName_k |-> NoName]
            /\ jobs' = jobs \cup { "deckCards" }
                            \cup (IF deckName # DefaultDeckName THEN { "deckName" } ELSE { })
       ELSE UNCHANGED << deckCards, deckName, localStorage, jobs >>
    /\ alerts' = << >>
    /\ UNCHANGED << availableCards, isLoading, error, deckCode, showDeckCodeModal,
                    importDeckCode, pc >>

\* v-model="deckName"
setDeckName(name) ==
    /\ deckName' = name
    /\ jobs' = jobs \cup (IF name # deckName THEN { "deckName" } ELSE { })
    /\ alerts' = << >>
    /\ UNCHANGED << availableCards, deckCards, isLoading, error, deckCode,
                    showDeckCodeModal, importDeckCode, localStorage, pc >>

\* mutant: the decoded list is assigned without testing its length
importDeckFromCode_noLengthTest(code) ==
    /\ deckCards' = decodeDeckCode(code)
    /\ jobs' = jobs \cup { "deckCards" }
    /\ importDeckCode' = << >>
    /\ showDeckCodeModal' = FALSE
    /\ alerts' = << >>
    /\ UNCHANGED << availableCards, deckName, isLoading, error, deckCode,
                    localStorage, pc >>

\* code: the content of the import textarea (importDeckCode.value) at the click
importDeckFromCode(code) ==
    LET importedCards == decodeDeckCode(code)
    IN  /\ IF Len(importedCards) > 0
           THEN /\ deckCards' = importedCards
                /\ jobs' = jobs \cup { "deckCards" }
                /\ importDeckCode' = << >>
                /\ showDeckCodeModal' = FALSE
                /\ alerts' = << >>
           ELSE /\ alerts' = << NoValidCardMsg >>
                /\ importDeckCode' = code
                /\ UNCHANGED << deckCards, jobs, showDeckCodeModal >>
        /\ UNCHANGED << availableCards, deckName, isLoading, error, deckCode,
                        localStorage, pc >>

generateAndShowDeckCode ==
    /\ deckCode' = encodeDeckCode(deckCards)
    /\ showDeckCodeModal' = TRUE
    /\ alerts' = << >>
    /\ UNCHANGED << availableCards, deckCards, deckName, isLoading, error,
                    importDeckCode, localStorage, pc, jobs >>

-----------------------------------------------------------------------------
(* Steps.  A user event, the mounting and the settling of the fetch are    *)
(* tasks: the watchers queued by a task have all run before the next task  *)
(* starts.  lastOp names the last task with its argument; a watcher run    *)
(* leaves it.                                                              *)

Op(name, arg) == [op |-> name, arg |-> arg]

\* what was found in localStorage at startup is remembered until the user first acts
Forgotten == [deckCards_k |-> NoItem, deckName_k |-> NoName]

System(name) ==
    /\ lastOp' = Op(name, << >>)
    /\ UNCHANGED << addRun, touched, snapshot0, prevCount, restoreFailed, decoded >>
    /\ ViewFrame

Watcher ==
    /\ UNCHANGED << lastOp, addRun, touched, snapshot0, prevCount, restoreFailed,
                    decoded >>
    /\ ViewFrame

User(name, arg) ==
    /\ pc # "setup"
    /\ Idle
    /\ lastOp' = Op(name, arg)
    /\ touched' = TRUE
    /\ snapshot0' = Forgotten
    /\ prevCount' = countOf(deckCards, arg)
    /\ UNCHANGED << restoreFailed, decoded >>
    /\ ViewFrame

\* the run of addCardToDeck calls after one more call, for card
addRunAfterAdd(card) ==
    IF addRun.n >= 1 /\ addRun.id = card.id /\ addRun.n < MaxRun
    THEN [addRun EXCEPT !.n = @ + 1]
    ELSE IF findIndex(deckCards, card.id) = 0
         THEN [id |-> card.id, n |-> 1, start |-> totalDeckCards]
         ELSE NoRun

\* the ids the user acts on
FreeIds == { idA, idB }

\* the cards of the selectable pool the user taps
PoolCards == { c \in Range(availableCards) : c.id \in FreeIds }

\* the first filler that is not in the deck with all its copies
NextFiller ==
    LET open == { i \in 1..NumFillers :
                    LET k == findIndex(deckCards, Filler(i).id)
                    IN  k = 0 \/ deckCards[k].count < MaxCopies }
    IN  IF open = { } THEN { }
        ELSE { Filler(CHOOSE i \in open : \A j \in open : i <= j) }

TokenSeqs(n) == UNION { [1..k -> { idA, idB, idZ }] : k \in 0..n }

\* the deck codes the user types: the short codes, a code of two cards, a
\* code of an unknown and a known id, and one id more often than the copy limit
CodeInputs ==
    { join(t) : t \in TokenSeqs(MaxTokens) }
        \cup { join(<< idA, idB >>), join(<< idZ, idA >>), join(fill(MaxCopies + 1, idA)) }

Mounted ==
    /\ onMounted
    /\ lastOp' = Op("onMounted", << >>)
    /\ restoreFailed' = (localStorage.deckCards_k.present /\ ~localStorage.deckCards_k.parses)
    /\ UNCHANGED << addRun, touched, snapshot0, prevCount, decoded >>
    /\ ViewFrame

FetchResolved == Idle /\ loadCardsResolved /\ System("loadCardsResolved")

FetchRejected == Idle /\ loadCardsRejected /\ System("loadCardsRejected")

FlushDeckCards == watchDeckCards /\ Watcher

FlushDeckName == watchDeckName /\ Watcher

DoAdd ==
    \E card \in PoolCards :
        User("addCardToDeck", card.id) /\ addCardToDeck(card) /\ addRun' = NoRun

DoIncrement ==
    \E id \in FreeIds :
        User("incrementCardCount", id) /\ incrementCardCount(id) /\ addRun' = NoRun

DoDecrement ==
    \E id \in FreeIds :
        User("decrementCardCount", id) /\ decrementCardCount(id) /\ addRun' = NoRun

DoRemove ==
    \E id \in FreeIds :
        User("removeCardFromDeck", id) /\ removeCardFromDeck(id) /\ addRun' = NoRun

DoReset ==
    \E confirmed \in BOOLEAN :
        /\ User(IF confirmed THEN "resetDeck" ELSE "resetDeck declined", << >>)
        /\ resetDeck(confirmed)
        /\ addRun' = NoRun

\* the argument kept of a name change is the name it replaces
DoSetName ==
    \E name \in Names :
        User("setDeckName", << deckName >>) /\ setDeckName(name) /\ addRun' = NoRun

DoImport ==
    \E code \in CodeInputs :
        User("importDeckFromCode", code) /\ importDeckFromCode(code) /\ addRun' = NoRun

Next ==
    \/ Mounted
    \/ FetchResolved
    \/ FetchRejected
    \/ FlushDeckCards
    \/ FlushDeckName
    \/ DoAdd
    \/ DoIncrement
    \/ DoDecrement
    \/ DoRemove
    \/ DoReset
    \/ DoSetName
    \/ DoImport

\* the whole session, from setup()
Spec == Init /\ [][Next]_vars

-----------------------------------------------------------------------------
(* The Deck Store alone: a session whose catalog is loaded and whose deck  *)
(* is empty, driven by the store operations only.  The user fills the deck *)
(* with card A and with the fillers, one filler after the other.           *)

InitStore ==
    /\ availableCards = Catalog
    /\ deckCards = << >>
    /\ deckName = DefaultDeckName
    /\ isLoading = FALSE
    /\ error = Null
    /\ deckCode = << >>
    /\ showDeckCodeModal = FALSE
    /\ importDeckCode = << >>
    /\ localStorage = [deckCards_k |-> NoItem, deckName_k |-> NoName]
    /\ pc = "loaded"
    /\ jobs = { }
    /\ alerts = << >>
    /\ lastOp = Op("loadCardsResolved", << >>)
    /\ addRun = NoRun
    /\ touched = FALSE
    /\ prevCount = 0
    /\ restoreFailed = FALSE
    /\ snapshot0 = localStorage
    /\ decoded = << >>
    /\ filterCriteria = NoCriteria
    /\ filtered = << >>
    /\ compared = NotCompared

DoAddStore ==
    \E card \in { cardA } \cup NextFiller :
        User("addCardToDeck", card.id) /\ addCardToDeck(card) /\ addRun' = addRunAfterAdd(card)

DoIncrementStore ==
    User("incrementCardCount", idA) /\ incrementCardCount(idA) /\ addRun' = NoRun

DoDecrementStore ==
    User("decrementCardCount", idA) /\ decrementCardCount(idA) /\ addRun' = NoRun

DoRemoveStore ==
    User("removeCardFromDeck", idA) /\ removeCardFromDeck(idA) /\ addRun' = NoRun

NextStore ==
    \/ FlushDeckCards
    \/ DoAddStore
    \/ DoIncrementStore
    \/ DoDecrementStore
    \/ DoRemoveStore
    \/ DoReset

SpecStore == InitStore /\ [][NextStore]_vars

-----------------------------------------------------------------------------
(* The codec alone: encodeDeckCode and decodeDeckCode applied to decks and *)
(* to codes drawn from bounded sets, against the loaded catalog.           *)

TestCards == { cardA, cardB, Filler(1) }

\* the decks of at most n entries over TestCards, no card twice, counts 1..4
RECURSIVE SmallDecks(_)
SmallDecks(n) ==
    IF n = 0 THEN { << >> }
    ELSE SmallDecks(n - 1) \cup
         { Append(deck, [card |-> c, count |-> k]) :
             deck \in { x \in SmallDecks(n - 1) : Len(x) = n - 1 },
             c \in TestCards, k \in 1..MaxCopies }

\* 60 cards: every copy of as many fillers as fill the deck
FullDeck ==
    [i \in 1..(MaxDeckTotal \div MaxCopies) |-> [card |-> Filler(i), count |-> MaxCopies]]

\* 60 cards, A and B among them
MixedFullDeck ==
    << [card |-> cardB, count |-> MaxCopies] >>
        \o [i \in 1..((MaxDeckTotal \div MaxCopies) - 2) |->
               [card |-> Filler(i), count |-> MaxCopies]]
        \o << [card |-> cardA, count |-> MaxCopies] >>

NoDuplicate(deck) ==
    \A i, j \in 1..Len(deck) : deck[i].card.id = deck[j].card.id => i = j

TestDecks ==
    { deck \in SmallDecks(MaxTestEntries) : NoDuplicate(deck) }
        \cup { FullDeck, MixedFullDeck }

CodeChars == { "A", "B", "Z", Slash }

TestCodes == UNION { [1..n -> CodeChars] : n \in 0..MaxCodeChars }

InitCodec ==
    /\ availableCards = Catalog
    /\ \/ deckCards \in TestDecks /\ importDeckCode = << >>
       \/ deckCards = << >> /\ importDeckCode \in TestCodes
    /\ deckName = DefaultDeckName
    /\ isLoading = FALSE
    /\ error = Null
    /\ deckCode = << >>
    /\ showDeckCodeModal = FALSE
    /\ localStorage = [deckCards_k |-> NoItem, deckName_k |-> NoName]
    /\ pc = "loaded"
    /\ jobs = { }
    /\ alerts = << >>
    /\ lastOp = Op("loadCardsResolved", << >>)
    /\ addRun = NoRun
    /\ touched = FALSE
    /\ prevCount = 0
    /\ restoreFailed = FALSE
    /\ snapshot0 = localStorage
    /\ decoded = << >>
    /\ filterCriteria = NoCriteria
    /\ filtered = << >>
    /\ compared = NotCompared

CodecGenerate ==
    /\ lastOp.op = "loadCardsResolved"
    /\ importDeckCode = << >>
    /\ generateAndShowDeckCode
    /\ lastOp' = Op("generateAndShowDeckCode", << >>)
    /\ UNCHANGED << addRun, touched, snapshot0, prevCount, restoreFailed, decoded >>
    /\ ViewFrame

\* decodeDeckCode applied to code, the result kept in decoded
CodecDecode(code) ==
    /\ decoded' = decodeDeckCode(code)
    /\ lastOp' = Op("decodeDeckCode", code)
    /\ UNCHANGED << availableCards, deckCards, deckName, isLoading, error, deckCode,
                    showDeckCodeModal, importDeckCode, localStorage, pc, jobs, alerts,
                    addRun, touched, snapshot0, prevCount, restoreFailed >>
    /\ ViewFrame

CodecDecodeGenerated ==
    /\ lastOp.op = "generateAndShowDeckCode"
    /\ CodecDecode(deckCode)

CodecDecodeTyped ==
    /\ lastOp.op = "loadCardsResolved"
    /\ CodecDecode(importDeckCode)

NextCodec ==
    \/ CodecGenerate
    \/ CodecDecodeGenerated
    \/ CodecDecodeTyped

SpecCodec == InitCodec /\ [][NextCodec]_vars

-----------------------------------------------------------------------------
(* Filtering of the selectable pool *)

allKinds == << "Artist", "Song", "Magic", "Direction" >>
allTypes == << "red", "blue", "yellow", "white", "black", "all",
               "instant", "equipment", "installed" >>

UpperChars == << "A", "B", "C", "D", "E", "F", "G", "H", "I", "J", "K", "L", "M",
                 "N", "O", "P", "Q", "R", "S", "T", "U", "V", "W", "X", "Y", "Z" >>
LowerChars == << "a", "b", "c", "d", "e", "f", "g", "h", "i", "j", "k", "l", "m",
                 "n", "o", "p", "q", "r", "s", "t", "u", "v", "w", "x", "y", "z" >>

isUpper(c) == \E k \in 1..Len(UpperChars) : UpperChars[k] = c

\* String.prototype.toLowerCase
toLowerCase(s) ==
    [i \in 1..Len(s) |->
        IF isUpper(s[i])
        THEN LowerChars[CHOOSE k \in 1..Len(UpperChars) : UpperChars[k] = s[i]]
        ELSE s[i]]

\* String.prototype.includes
includes(s, t) == \E i \in 0..(Len(s) - Len(t)) : SubSeq(s, i + 1, i + Len(t)) = t

\* the callback of cards.filter(...) in filterCards, with text in place of
\* criteria.text.toLowerCase()
keepCard(card, text, kindSet, typeSet, tagSet) ==
    IF /\ text # << >>
       /\ ~ \/ includes(toLowerCase(card.name), text)
            \/ includes(toLowerCase(card.id), text)
            \/ /\ card.tags.array
               /\ \E i \in 1..Len(card.tags.items) :
                      includes(toLowerCase(card.tags.items[i]), text)
    THEN FALSE
    ELSE IF Cardinality(kindSet) > 0 /\ card.kind \notin kindSet
    THEN FALSE
    ELSE IF /\ Cardinality(typeSet) > 0
            /\ LET cardTypes == IF card.type.array THEN card.type.items
                                ELSE << card.type.value >>
               IN  ~ \E i \in 1..Len(cardTypes) : cardTypes[i] \in typeSet
    THEN FALSE
    ELSE IF /\ Cardinality(tagSet) > 0
            /\ ~ /\ card.tags.array
                 /\ \E i \in 1..Len(card.tags.items) : card.tags.items[i] \in tagSet
    THEN FALSE
    ELSE TRUE

\* mutant: the search text is compared as typed, the card's fields lowered
filterCards_caseSensitive(cards, criteria) ==
    SelectSeq(cards, LAMBDA card :
        keepCard(card, criteria.text, Range(criteria.kind), Range(criteria.type),
                 Range(criteria.tags)))

filterCards(cards, criteria) ==
    LET textLower == toLowerCase(criteria.text)
        kindSet == Range(criteria.kind)
        typeSet == Range(criteria.type)
        tagSet == Range(criteria.tags)
    IN  SelectSeq(cards, LAMBDA card : keepCard(card, textLower, kindSet, typeSet, tagSet))

-----------------------------------------------------------------------------
(* The filter alone: filterCards applied to a catalog of four cards under  *)
(* criteria drawn from bounded sets.                                       *)

\* longest search text, in characters
MaxTextLen == 2

tagVw == << "V", "w" >>
tagX == << "x" >>

fcArtist == Card(<< "A", "1" >>, << "K", "a" >>, "Artist", TypeOne("red"), TagList(<< tagVw >>))
fcSong ==
    Card(<< "B", "2" >>, << "a", "b" >>, "Song", TypeList(<< "blue", "red" >>),
         TagList(<< tagX, tagVw >>))
fcSongNoTags == Card(<< "b", "1" >>, << "O" >>, "Song", TypeOne("blue"), NoTags)
fcMagic == Card(<< "C" >>, << "k" >>, "Magic", NoType, TagList(<< >>))

FilterCatalog == << fcArtist, fcSong, fcSongNoTags, fcMagic >>

FilterChars == { "a", "A", "b", "1", "W" }

\* what the user enters in the filter dialog
TestCriteria ==
    [text : UNION { [1..n -> FilterChars] : n \in 0..MaxTextLen },
     kind : { << >>, << "Song" >>, << "Artist" >>, << "Artist", "Song" >>, << "Direction" >> },
     type : { << >>, << "red" >>, << "blue" >>, << "yellow", "blue" >> },
     tags : { << >>, << tagVw >>, << tagX >>, << tagX, tagVw >> }]

InitFilter ==
    /\ availableCards = FilterCatalog
    /\ filterCriteria \in TestCriteria
    /\ filtered = << >>
    /\ compared = NotCompared
    /\ deckCards = << >>
    /\ deckName = DefaultDeckName
    /\ isLoading = FALSE
    /\ error = Null
    /\ deckCode = << >>
    /\ showDeckCodeModal = FALSE
    /\ importDeckCode = << >>
    /\ localStorage = [deckCards_k |-> NoItem, deckName_k |-> NoName]
    /\ pc = "loaded"
    /\ jobs = { }
    /\ alerts = << >>
    /\ lastOp = Op("loadCardsResolved", << >>)
    /\ addRun = NoRun
    /\ touched = FALSE
    /\ prevCount = 0
    /\ restoreFailed = FALSE
    /\ snapshot0 = localStorage
    /\ decoded = << >>

\* const filtered = filterCards(availableCards.value, filterCriteria.value)
ApplyFilter ==
    /\ lastOp.op = "loadCardsResolved"
    /\ filtered' = filterCards(availableCards, filterCriteria)
    /\ lastOp' = Op("filterCards", << >>)
    /\ UNCHANGED << availableCards, deckCards, deckName, isLoading, error, deckCode,
                    showDeckCodeModal, importDeckCode, localStorage, pc, jobs, alerts,
                    addRun, touched, snapshot0, prevCount, restoreFailed, decoded,
                    filterCriteria,
                    compared >>

NextFilter == ApplyFilter

SpecFilter == InitFilter /\ [][NextFilter]_vars

-----------------------------------------------------------------------------
(* Ordering of the selectable pool and of the deck *)

\* Array.prototype.indexOf, counting from 0; -1 when the value is not there
indexOf(order, v) ==
    IF \E i \in 1..Len(order) : order[i] = v
    THEN (CHOOSE i \in 1..Len(order) :
              /\ order[i] = v
              /\ \A j \in 1..(i - 1) : order[j] # v) - 1
    ELSE 0 - 1

kindSort(a, b) == indexOf(allKinds, a.kind) - indexOf(allKinds, b.kind)

\* types.forEach(...) of getEarliestTypeIndex, from the i-th type on
RECURSIVE earliestFrom(_, _, _)
earliestFrom(types, i, minIndex) ==
    IF i > Len(types) THEN minIndex
    ELSE LET index == indexOf(allTypes, types[i])
         IN  earliestFrom(types, i + 1,
                          IF index # 0 - 1 /\ index < minIndex THEN index ELSE minIndex)

\* mutant: the first type listed decides, not the earliest of the order
getEarliestTypeIndex_firstListed(cardTypes) ==
    IF ~cardTypes.array /\ cardTypes.value = "" THEN Len(allTypes)
    ELSE LET types == IF cardTypes.array THEN cardTypes.items ELSE << cardTypes.value >>
         IN  IF types # << >> /\ indexOf(allTypes, types[1]) # 0 - 1
             THEN indexOf(allTypes, types[1])
             ELSE Len(allTypes)

getEarliestTypeIndex(cardTypes) ==
    IF ~cardTypes.array /\ cardTypes.value = "" THEN Len(allTypes)
    ELSE LET types == IF cardTypes.array THEN cardTypes.items ELSE << cardTypes.value >>
         IN  earliestFrom(types, 1, Len(allTypes))

typeSort(a, b) == getEarliestTypeIndex(a.type) - getEarliestTypeIndex(b.type)

DigitChars == << "0", "1", "2", "3", "4", "5", "6", "7", "8", "9" >>

isDigit(c) == \E k \in 1..Len(DigitChars) : DigitChars[k] = c

\* the length of the run of digits, or of non-digits, that s starts with
RECURSIVE runLength(_)
runLength(s) ==
    IF Len(s) <= 1 THEN Len(s)
    ELSE IF isDigit(s[2]) = isDigit(s[1]) THEN 1 + runLength(Tail(s))
    ELSE 1

\* s.match(/(\d+)|(\D+)/g): the runs of s; no run (null) for the empty string
RECURSIVE match(_)
match(s) ==
    IF s = << >> THEN << >>
    ELSE LET n == runLength(s)
         IN  << SubSeq(s, 1, n) >> \o match(SubSeq(s, n + 1, Len(s)))

\* the number a run of digits denotes
RECURSIVE digitsValue(_)
digitsValue(token) ==
    IF token = << >> THEN 0
    ELSE 10 * digitsValue(SubSeq(token, 1, Len(token) - 1))
         + ((CHOOSE k \in 1..Len(DigitChars) : DigitChars[k] = token[Len(token)]) - 1)

\* parseInt(token, 10) of a run: a number for digits, NaN for non-digits
parseInt(token) ==
    IF isDigit(token[1]) THEN [nan |-> FALSE, value |-> digitsValue(token)]
    ELSE [nan |-> TRUE, value |-> 0]

\* the characters in the order of the default collation: punctuation, the
\* digits, the letters without regard to case
CollationChars == << "-" >> \o DigitChars \o LowerChars

primaryWeight(c) ==
    CHOOSE k \in 1..Len(CollationChars) : CollationChars[k] = toLowerCase(<< c >>)[1]

\* String.prototype.localeCompare in the default collation: by the primary
\* weights, a prefix first; then lower case before upper case
localeCompare(s, t) ==
    LET n == IF Len(s) < Len(t) THEN Len(s) ELSE Len(t)
        primary == { i \in 1..n : primaryWeight(s[i]) # primaryWeight(t[i]) }
        cased == { i \in 1..n : s[i] # t[i] }
        first(S) == CHOOSE i \in S : \A j \in S : i <= j
    IN  IF primary # { }
        THEN IF primaryWeight(s[first(primary)]) < primaryWeight(t[first(primary)])
             THEN 0 - 1 ELSE 1
        ELSE IF Len(s) # Len(t) THEN (IF Len(s) < Len(t) THEN 0 - 1 ELSE 1)
        ELSE IF cased # { } THEN (IF isUpper(s[first(cased)]) THEN 1 ELSE 0 - 1)
        ELSE 0

\* mutant: a run that starts in upper case goes first without a look at the
\* other run
RECURSIVE naturalSortFrom_upperAlways(_, _, _)
naturalSortFrom_upperAlways(tokensA, tokensB, i) ==
    IF i > Len(tokensA) \/ i > Len(tokensB) THEN Len(tokensA) - Len(tokensB)
    ELSE LET tokenA == tokensA[i]
             tokenB == tokensB[i]
             numA == parseInt(tokenA)
             numB == parseInt(tokenB)
         IN  IF ~numA.nan /\ ~numB.nan
             THEN IF numA.value # numB.value THEN numA.value - numB.value
                  ELSE naturalSortFrom_upperAlways(tokensA, tokensB, i + 1)
             ELSE IF isUpper(tokenA[1]) THEN 0 - 1
                  ELSE IF isUpper(tokenB[1]) THEN 1
                  ELSE IF tokenA # tokenB THEN localeCompare(tokenA, tokenB)
                  ELSE naturalSortFrom_upperAlways(tokensA, tokensB, i + 1)

\* the for loop of naturalSort from index i on, and the return after it
RECURSIVE naturalSortFrom(_, _, _)
naturalSortFrom(tokensA, tokensB, i) ==
    IF i > Len(tokensA) \/ i > Len(tokensB) THEN Len(tokensA) - Len(tokensB)
    ELSE LET tokenA == tokensA[i]
             tokenB == tokensB[i]
             numA == parseInt(tokenA)
             numB == parseInt(tokenB)
         IN  IF ~numA.nan /\ ~numB.nan
             THEN IF numA.value # numB.value THEN numA.value - numB.value
                  ELSE naturalSortFrom(tokensA, tokensB, i + 1)
             ELSE LET isUpperA == isUpper(tokenA[1])
                      isUpperB == isUpper(tokenB[1])
                  IN  IF isUpperA # isUpperB THEN (IF isUpperA THEN 0 - 1 ELSE 1)
                      ELSE IF tokenA # tokenB THEN localeCompare(tokenA, tokenB)
                      ELSE naturalSortFrom(tokensA, tokensB, i + 1)

\* mutant: the runs of digits are compared as strings
naturalSort_asStrings(a, b) == localeCompare(a, b)

naturalSort(a, b) ==
    LET tokensA == match(a)
        tokensB == match(b)
    IN  IF tokensA = << >> \/ tokensB = << >> THEN localeCompare(a, b)
        ELSE naturalSortFrom(tokensA, tokensB, 1)

\* the comparator given to sort in sortedAndFilteredAvailableCards
poolComparator(a, b) ==
    LET kindComparison == kindSort(a, b)
        typeComparison == typeSort(a, b)
    IN  IF kindComparison # 0 THEN kindComparison
        ELSE IF typeComparison # 0 THEN typeComparison
        ELSE naturalSort(a.id, b.id)

\* mutant: the entries are ordered by id, then kind, then type
deckComparator_idFirst(a, b) ==
    LET idComparison == naturalSort(a.card.id, b.card.id)
        kindComparison == kindSort([kind |-> a.card.kind], [kind |-> b.card.kind])
    IN  IF idComparison # 0 THEN idComparison
        ELSE IF kindComparison # 0 THEN kindComparison
        ELSE typeSort([type |-> a.card.type], [type |-> b.card.type])

\* the comparator given to sort in sortedDeckCards
deckComparator(a, b) ==
    LET cardA_ == a.card
        cardB_ == b.card
        kindComparison == kindSort([kind |-> cardA_.kind], [kind |-> cardB_.kind])
        typeComparison == typeSort([type |-> cardA_.type], [type |-> cardB_.type])
    IN  IF kindComparison # 0 THEN kindComparison
        ELSE IF typeComparison # 0 THEN typeComparison
        ELSE naturalSort(cardA_.id, cardB_.id)

-----------------------------------------------------------------------------
(* The ordering alone: the comparators applied to two cards drawn from     *)
(* bounded sets, as cards of the pool and as entries of the deck.          *)

\* most runs of digits and non-digits in a compared id
MaxIdRuns == 3

LetterRuns == { << "A", "A", "-" >>, << "a" >> }
DigitRuns == { << "1" >>, << "2" >>, << "1", "0" >>, << "0", "2" >> }

\* the ids of k runs, runs of digits and of non-digits in turn
RECURSIVE AltIds(_, _)
AltIds(k, digitsFirst) ==
    IF k = 0 THEN { << >> }
    ELSE { r \o rest : r \in (IF digitsFirst THEN DigitRuns ELSE LetterRuns),
                       rest \in AltIds(k - 1, ~digitsFirst) }

NaturalIds == UNION { AltIds(k, d) : k \in 0..MaxIdRuns, d \in BOOLEAN }

\* cards that differ in their ids only
IdCards == { Card(id, << >>, "Artist", TypeOne("red"), NoTags) : id \in NaturalIds }

\* cards of known and unknown kinds, of one type, several types and no type
SortCards ==
    { Card(id, << >>, kind, type, NoTags) :
        id \in { << "A", "A", "-", "1" >>, << "A", "A", "-", "2" >>,
                 << "A", "A", "-", "1", "0" >> },
        kind \in { "Artist", "Song", "Token", "Other" },
        type \in { TypeOne("red"), TypeOne("blue"), TypeList(<< "blue", "red" >>),
                   TypeList(<< "odd", "instant" >>), TypeOne("odd"), NoType } }

ComparedPairs ==
    { << a, b >> : a \in SortCards, b \in SortCards }
        \cup { << a, b >> : a \in IdCards, b \in IdCards }

InitSort ==
    /\ availableCards \in ComparedPairs
    /\ deckCards = [i \in 1..2 |-> [card |-> availableCards[i], count |-> 1]]
    /\ filterCriteria = NoCriteria
    /\ filtered = << >>
    /\ compared = NotCompared
    /\ deckName = DefaultDeckName
    /\ isLoading = FALSE
    /\ error = Null
    /\ deckCode = << >>
    /\ showDeckCodeModal = FALSE
    /\ importDeckCode = << >>
    /\ localStorage = [deckCards_k |-> NoItem, deckName_k |-> NoName]
    /\ pc = "loaded"
    /\ jobs = { }
    /\ alerts = << >>
    /\ lastOp = Op("loadCardsResolved", << >>)
    /\ addRun = NoRun
    /\ touched = FALSE
    /\ prevCount = 0
    /\ restoreFailed = FALSE
    /\ snapshot0 = localStorage
    /\ decoded = << >>

\* the two cards compared as the pool compares them, the two entries as the
\* deck compares them, the two ids by naturalSort
CompareCards ==
    /\ ~compared.done
    /\ compared' = [pool |-> poolComparator(availableCards[1], availableCards[2]),
                    deck |-> deckComparator(deckCards[1], deckCards[2]),
                    natural |-> naturalSort(availableCards[1].id, availableCards[2].id),
                    kind |-> kindSort(availableCards[1], availableCards[2]),
                    type |-> typeSort(availableCards[1], availableCards[2]),
                    laws |-> << >>,
                    done |-> TRUE]
    /\ lastOp' = Op("sort", << >>)
    /\ UNCHANGED << availableCards, deckCards, deckName, isLoading, error, deckCode,
                    showDeckCodeModal, importDeckCode, localStorage, pc, jobs, alerts,
                    addRun, touched, snapshot0, prevCount, restoreFailed, decoded,
                    filterCriteria,
                    filtered >>

NextSort == CompareCards

SpecSort == InitSort /\ [][NextSort]_vars

-----------------------------------------------------------------------------
(* The comparator laws: the comparator of the pool applied to two cards    *)
(* drawn from bounded sets, in both orders and to a card and itself.       *)

\* most runs of digits and non-digits in an id of the cards the laws are
\* checked on
MaxLawRuns == 2

LawLetterRuns == { << "A" >>, << "a" >>, << "-" >> }
LawDigitRuns == { << "2" >>, << "1", "0" >>, << "0", "2" >> }

\* the ids of k runs: upper-case, lower-case and punctuation runs and runs of
\* digits in turn
RECURSIVE LawIdsOf(_, _)
LawIdsOf(k, digitsFirst) ==
    IF k = 0 THEN { << >> }
    ELSE { r \o rest : r \in (IF digitsFirst THEN LawDigitRuns ELSE LawLetterRuns),
                       rest \in LawIdsOf(k - 1, ~digitsFirst) }

LawIds == UNION { LawIdsOf(k, d) : k \in 0..MaxLawRuns, d \in BOOLEAN }

\* cards that differ in their ids only
LawIdCards == { Card(id, << >>, "Artist", TypeOne("red"), NoTags) : id \in LawIds }

\* cards of known and unknown kinds, with and without a known type
LawMixedCards ==
    { Card(id, << >>, kind, type, NoTags) :
        id \in { << "A", "2" >>, << "a", "1", "0" >> },
        kind \in { "Artist", "Song", "Token" },
        type \in { TypeOne("red"), TypeList(<< "blue", "red" >>), NoType } }

LawCards == LawIdCards \cup LawMixedCards

ComparedLawPairs == { << a, b >> : a \in LawCards, b \in LawCards }

InitLaws ==
    /\ availableCards \in ComparedLawPairs
    /\ deckCards = << >>
    /\ filterCriteria = NoCriteria
    /\ filtered = << >>
    /\ compared = NotCompared
    /\ deckName = DefaultDeckName
    /\ isLoading = FALSE
    /\ error = Null
    /\ deckCode = << >>
    /\ showDeckCodeModal = FALSE
    /\ importDeckCode = << >>
    /\ localStorage = [deckCards_k |-> NoItem, deckName_k |-> NoName]
    /\ pc = "loaded"
    /\ jobs = { }
    /\ alerts = << >>
    /\ lastOp = Op("loadCardsResolved", << >>)
    /\ addRun = NoRun
    /\ touched = FALSE
    /\ prevCount = 0
    /\ restoreFailed = FALSE
    /\ snapshot0 = localStorage
    /\ decoded = << >>

\* the comparator of the pool called on the two cards in both orders, and
\* on the first card and itself
CompareBothWays ==
    /\ ~compared.done
    /\ LET a == availableCards[1]
           b == availableCards[2]
       IN  compared' = [NotCompared EXCEPT
                          !.pool = poolComparator(a, b),
                          !.laws = [aa |-> poolComparator(a, a),
                                    ab |-> poolComparator(a, b),
                                    ba |-> poolComparator(b, a)],
                          !.done = TRUE]
    /\ lastOp' = Op("sort", << >>)
    /\ UNCHANGED << availableCards, deckCards, deckName, isLoading, error, deckCode,
                    showDeckCodeModal, importDeckCode, localStorage, pc, jobs, alerts,
                    addRun, touched, snapshot0, prevCount, restoreFailed, decoded,
                    filterCriteria, filtered >>

NextLaws == CompareBothWays

SpecLaws == InitLaws /\ [][NextLaws]_vars

-----------------------------------------------------------------------------
(* Properties *)

Min(a, b) == IF a < b THEN a ELSE b

\* the entries of deck that hold the card id
EntriesOf(deck, id) == { i \in 1..Len(deck) : deck[i].card.id = id }

\* the total-count and per-card-count limits of a deck
WithinLimits(deck) ==
    /\ SumCounts(deck) <= MaxDeckTotal
    /\ \A i \in 1..Len(deck) : deck[i].count >= 1 /\ deck[i].count <= MaxCopies

\* C1: from an empty deck, after any sequence of addCardToDeck,
\* incrementCardCount, decrementCardCount, removeCardFromDeck and resetDeck,
\* the counts sum to at most 60 and every count is between 1 and 4.
C1_StoreKeepsLimits == WithinLimits(deckCards)

\* a full deck of 60 cards holding an entry of 4 copies, where one more
\* addCardToDeck has just been refused
C1_Witness ==
    /\ lastOp.op = "addCardToDeck"
    /\ alerts = << CapacityMsg >>
    /\ totalDeckCards = MaxDeckTotal
    /\ \E i \in 1..Len(deckCards) : deckCards[i].count = MaxCopies

\* C2: with importDeckFromCode interleaved with the store operations, the
\* total is still at most 60 and every count still in 1..4.
C2_LimitsWithImports ==
    /\ totalDeckCards <= MaxDeckTotal
    /\ \A i \in 1..Len(deckCards) : deckCards[i].count \in 1..MaxCopies

\* C3: addCardToDeck called with a total of 60 or more leaves the deck as it
\* was, whether or not the card has an entry.
C3_AddRefusedWhenFull ==
    [][(Idle /\ lastOp'.op = "addCardToDeck" /\ totalDeckCards >= MaxDeckTotal)
          => deckCards' = deckCards]_vars

\* card A, which has no entry, has just been refused by a full deck
C3_Witness ==
    /\ lastOp = Op("addCardToDeck", idA)
    /\ alerts = << CapacityMsg >>
    /\ totalDeckCards >= MaxDeckTotal
    /\ EntriesOf(deckCards, idA) = { }
    /\ Idle

\* C4: n calls in a row of addCardToDeck for a card that had no entry, in a
\* deck with room for them (total + n <= 60), give one entry with count
\* min(n, 4); a call made when the count is 4 already changes nothing.
C4_RepeatedAddStopsAtFour ==
    [][LET run == addRun'
       IN  (run.n >= 1 /\ run.start + run.n <= MaxDeckTotal)
              => /\ Cardinality(EntriesOf(deckCards', run.id)) = 1
                 /\ \A i \in EntriesOf(deckCards', run.id) :
                        deckCards'[i].count = Min(run.n, MaxCopies)
                 /\ run.n > MaxCopies => deckCards' = deckCards]_vars

\* the fifth call in a row for card A has left its count at 4
C4_Witness ==
    /\ lastOp = Op("addCardToDeck", idA)
    /\ addRun.id = idA
    /\ addRun.n = MaxCopies + 1
    /\ addRun.start + addRun.n <= MaxDeckTotal
    /\ \E i \in EntriesOf(deckCards, idA) : deckCards[i].count = MaxCopies
    /\ alerts = << >>

\* a deck the codec claims are about: ids of the catalog, no id twice,
\* counts in 1..4, total in 0..60
ValidDeck(deck) ==
    /\ \A i \in 1..Len(deck) : deck[i].card \in Range(availableCards)
    /\ NoDuplicate(deck)
    /\ WithinLimits(deck)

\* C5: for a deck of catalog ids with counts in 1..4 and total in 0..60 (the
\* empty deck too), decodeDeckCode(encodeDeckCode(deck)) has exactly the
\* (id, count) pairs of the deck.
C5_DecodeOfEncode ==
    (lastOp.op = "decodeDeckCode" /\ showDeckCodeModal /\ ValidDeck(deckCards))
        => /\ Pairs(decoded) = Pairs(deckCards)
           /\ Len(decoded) = Len(deckCards)

\* the code of a 60-card deck has been decoded back to its 15 entries
C5_Witness ==
    /\ lastOp.op = "decodeDeckCode"
    /\ showDeckCodeModal
    /\ ValidDeck(deckCards)
    /\ totalDeckCards = MaxDeckTotal
    /\ Len(decoded) = MaxDeckTotal \div MaxCopies
    /\ EntriesOf(decoded, idA) # { }

\* the number of tokens of code that are id: the places where id stands
\* between delimiters or the ends of the code
Occurrences(id, code) ==
    Cardinality({ p \in 1..(Len(code) - Len(id) + 1) :
                    /\ SubSeq(code, p, p + Len(id) - 1) = id
                    /\ (p = 1 \/ code[p - 1] = Slash)
                    /\ (p + Len(id) - 1 = Len(code) \/ code[p + Len(id)] = Slash) })

\* C6: decodeDeckCode(code) has one entry for every catalog id among the
\* tokens of code, with the number of its occurrences as count, and no
\* other entry; ids outside the catalog give no entry.
C6_DecodeCountsTokens ==
    lastOp.op = "decodeDeckCode"
        => /\ \A c \in Range(availableCards) :
                 IF Occurrences(c.id, lastOp.arg) > 0
                 THEN /\ Cardinality(EntriesOf(decoded, c.id)) = 1
                      /\ \A i \in EntriesOf(decoded, c.id) :
                             /\ decoded[i].count = Occurrences(c.id, lastOp.arg)
                             /\ decoded[i].card = c
                 ELSE EntriesOf(decoded, c.id) = { }
           /\ \A i \in 1..Len(decoded) : decoded[i].card \in Range(availableCards)

\* "A/A/B" has been decoded to {A: 2, B: 1}
C6_Witness ==
    /\ lastOp = Op("decodeDeckCode", << "A", Slash, "A", Slash, "B" >>)
    /\ Pairs(decoded) = { << idA, 2 >>, << idB, 1 >> }
    /\ Len(decoded) = 2

\* "Z", an id not in the catalog, has been decoded to the empty list
C6_WitnessUnknown ==
    /\ lastOp = Op("decodeDeckCode", << "Z" >>)
    /\ decoded = << >>

\* C7: importDeckFromCode with a code that decodes to no entry shows a
\* message and leaves the deck as it was; with a code that decodes to at
\* least one entry the deck becomes exactly the decoded entries.
C7_ImportFailsOrReplaces ==
    [][(Idle /\ lastOp'.op = "importDeckFromCode")
          => LET entries == decodeDeckCode(lastOp'.arg)
             IN  IF entries = << >>
                 THEN /\ alerts' = << NoValidCardMsg >>
                      /\ deckCards' = deckCards
                 ELSE /\ deckCards' = entries
                      /\ alerts' = << >>]_vars

\* an import of a code without any catalog id has been refused on a deck
\* that holds cards
C7_Witness ==
    /\ lastOp = Op("importDeckFromCode", << "Z" >>)
    /\ alerts = << NoValidCardMsg >>
    /\ deckCards # << >>
    /\ Idle

\* C8: a confirmed resetDeck leaves, in one step, no entry and the default
\* deck name; a declined one leaves the entries, the name and the stored
\* snapshot as they were.
C8_ResetClearsOrKeeps ==
    [][/\ (Idle /\ lastOp'.op = "resetDeck")
            => deckCards' = << >> /\ deckName' = DefaultDeckName
       /\ (Idle /\ lastOp'.op = "resetDeck declined")
            => UNCHANGED << deckCards, deckName, localStorage >>]_vars

\* a confirmed reset has just emptied the deck and put back the default name,
\* which the deck did not have
C8_Witness ==
    /\ lastOp.op = "resetDeck"
    /\ jobs = { "deckCards", "deckName" }
    /\ ~localStorage.deckCards_k.present
    /\ deckCards = << >>
    /\ deckName = DefaultDeckName

\* C9: once a confirmed resetDeck and the watchers it triggered have run,
\* localStorage holds neither deckCards_k nor deckName_k.
C9_ResetClearsStorage ==
    (lastOp.op = "resetDeck" /\ Idle)
        => /\ ~localStorage.deckCards_k.present
           /\ ~localStorage.deckName_k.present

\* the pairs of a stored snapshot whose id is in the catalog cards
KnownPairs(simple, cards) ==
    { << simple[i].id, simple[i].count >> :
        i \in { j \in 1..Len(simple) : \E k \in 1..Len(cards) : cards[k].id = simple[j].id } }

\* C10: when the startup sequence has completed with a stored snapshot and
\* a successful fetch, the deck holds the stored pairs whose id is in the
\* fetched catalog, and only the others are dropped.
C10_StartupRestoresDeck ==
    (/\ lastOp.op = "loadCardsResolved"
     /\ Idle
     /\ ~touched
     /\ snapshot0.deckCards_k.present
     /\ snapshot0.deckCards_k.parses)
        => Pairs(deckCards) = KnownPairs(snapshot0.deckCards_k.value, availableCards)


\* C11: an addCardToDeck or incrementCardCount call refused because a limit
\* is hit (total of 60 or more, or 4 copies of the card already) leaves the
\* deck as it was and raises the capacity notification.
C11_RefusalIsNotified ==
    [][(/\ Idle
        /\ lastOp'.op \in { "addCardToDeck", "incrementCardCount" }
        /\ \/ totalDeckCards >= MaxDeckTotal
           \/ countOf(deckCards, lastOp'.arg) >= MaxCopies)
          => /\ deckCards' = deckCards
             /\ alerts' = << CapacityMsg >>]_vars

\* deck without the entry at position i
Without(deck, i) == SubSeq(deck, 1, i - 1) \o SubSeq(deck, i + 1, Len(deck))

\* C12: decrementCardCount takes one copy off an entry of more than one
\* copy, removes an entry of one copy, does nothing for a card without an
\* entry; the other entries stay, no entry is left with count 0 and no
\* capacity notification is raised.
C12_DecrementTakesOneOrRemoves ==
    [][(Idle /\ lastOp'.op = "decrementCardCount")
          => LET id == lastOp'.arg
                 E == EntriesOf(deckCards, id)
             IN  /\ E = { } => deckCards' = deckCards
                 /\ \A i \in E :
                        /\ deckCards[i].count > 1
                              => deckCards' = [deckCards EXCEPT ![i].count = @ - 1]
                        /\ deckCards[i].count = 1
                              => deckCards' = Without(deckCards, i)
                 /\ \A j \in 1..Len(deckCards') : deckCards'[j].count >= 1
                 /\ alerts' = << >>]_vars

\* the single copy of card A has just been taken out of a full deck, the
\* other entries staying
C12_Witness ==
    /\ lastOp = Op("decrementCardCount", idA)
    /\ prevCount = 1
    /\ EntriesOf(deckCards, idA) = { }
    /\ totalDeckCards = MaxDeckTotal - 1
    /\ alerts = << >>

\* C13: incrementCardCount adds one copy to an existing entry of fewer than
\* 4 copies when the total is below 60, and otherwise (no entry, 4 copies,
\* total of 60 or more) leaves the deck as it was; it never creates an entry.
C13_IncrementOnlyRaisesExisting ==
    [][(Idle /\ lastOp'.op = "incrementCardCount")
          => LET id == lastOp'.arg
                 E == EntriesOf(deckCards, id)
                 ok == /\ totalDeckCards < MaxDeckTotal
                       /\ E # { }
                       /\ \A i \in E : deckCards[i].count < MaxCopies
             IN  /\ ok => \A i \in E :
                            deckCards' = [deckCards EXCEPT ![i].count = @ + 1]
                 /\ ~ok => deckCards' = deckCards
                 /\ EntriesOf(deckCards', id) = E]_vars

\* the third copy of card A has just become the fourth, filling the deck
C13_Witness ==
    /\ lastOp = Op("incrementCardCount", idA)
    /\ prevCount = MaxCopies - 1
    /\ countOf(deckCards, idA) = MaxCopies
    /\ totalDeckCards = MaxDeckTotal

\* C14: removeCardFromDeck leaves no entry of the card, whatever its count,
\* keeps every other entry with its count and its place, and changes
\* nothing when the card has no entry (so a second call changes nothing).
C14_RemoveDropsOnlyThatEntry ==
    [][(Idle /\ lastOp'.op = "removeCardFromDeck")
          => LET id == lastOp'.arg
                 E == EntriesOf(deckCards, id)
             IN  /\ EntriesOf(deckCards', id) = { }
                 /\ Len(deckCards') = Len(deckCards) - Cardinality(E)
                 /\ \A j \in (1..Len(deckCards)) \ E :
                        deckCards'[j - Cardinality({ k \in E : k < j })] = deckCards[j]
                 /\ E = { } => deckCards' = deckCards]_vars

\* the entry of card A, which held 4 copies, has just been removed and other
\* entries remain
C14_Witness ==
    /\ lastOp = Op("removeCardFromDeck", idA)
    /\ prevCount = MaxCopies
    /\ EntriesOf(deckCards, idA) = { }
    /\ Len(deckCards) >= 2

\* C15: through the deck operations, the import and the startup restore, no
\* card id is in more than one entry of the deck.
C15_OneEntryPerCard == NoDuplicate(deckCards)

\* card A, which had an entry, has just been tapped again in a deck of two
\* entries
C15_Witness ==
    /\ lastOp = Op("addCardToDeck", idA)
    /\ prevCount >= 1
    /\ countOf(deckCards, idA) = prevCount + 1
    /\ Len(deckCards) = 2


\* the types and the tags a card has
TypesOf(card) == IF card.type.array THEN Range(card.type.items) ELSE { card.type.value }
TagsOf(card) == IF card.tags.array THEN Range(card.tags.items) ELSE { }

\* the four conditions of the filter, all of which a kept card meets
Matches(card, criteria) ==
    /\ \/ criteria.text = << >>
       \/ \E field \in { card.name, card.id } \cup TagsOf(card) :
              includes(toLowerCase(field), toLowerCase(criteria.text))
    /\ Range(criteria.kind) = { } \/ card.kind \in Range(criteria.kind)
    /\ Range(criteria.type) = { } \/ TypesOf(card) \cap Range(criteria.type) # { }
    /\ Range(criteria.tags) = { } \/ TagsOf(card) \cap Range(criteria.tags) # { }

\* C16: filterCards keeps exactly the cards that meet all four conditions
\* (text, kind, type, tags); with empty criteria it keeps every card, and
\* with kind = {Song} only Song cards.
C16_FilterKeepsMatching ==
    lastOp.op = "filterCards"
        => /\ \A card \in Range(availableCards) :
                  card \in Range(filtered) <=> Matches(card, filterCriteria)
           /\ Range(filtered) \subseteq Range(availableCards)
           /\ filterCriteria = NoCriteria => Range(filtered) = Range(availableCards)
           /\ (filterCriteria.kind = << "Song" >>)
                  => \A card \in Range(filtered) : card.kind = "Song"

\* the text W, the kind Song, the type red and the tag x have kept the one
\* card that meets all four
C16_Witness ==
    /\ lastOp.op = "filterCards"
    /\ filterCriteria = [text |-> << "W" >>, kind |-> << "Song" >>,
                         type |-> << "red" >>, tags |-> << tagX >>]
    /\ filtered = << fcSong >>


Sign(n) == IF n < 0 THEN 0 - 1 ELSE IF n > 0 THEN 1 ELSE 0

\* kind order, then type order, then natural id order: the first that
\* tells the two cards apart
CanonicalOrder(a, b) ==
    IF kindSort(a, b) # 0 THEN kindSort(a, b)
    ELSE IF typeSort(a, b) # 0 THEN typeSort(a, b)
    ELSE naturalSort(a.id, b.id)

OneDigitRunSmaller(ta, tb) ==
    /\ Len(ta) = Len(tb)
    /\ \E i \in 1..Len(ta) :
          /\ \A j \in (1..Len(ta)) \ { i } : ta[j] = tb[j]
          /\ isDigit(ta[i][1]) /\ isDigit(tb[i][1])
          /\ digitsValue(ta[i]) < digitsValue(tb[i])

StrictPrefix(ta, tb) == Len(ta) < Len(tb) /\ SubSeq(tb, 1, Len(ta)) = ta

\* C18: of two ids that differ in one run of digits only, naturalSort puts
\* the one with the smaller number first whatever the number of digits
\* (AA-1, AA-2, AA-10), and an id whose runs are a strict prefix of the
\* other's runs first.
C18_NaturalOrderOfIds ==
    compared.done
        => LET a == availableCards[1].id
               b == availableCards[2].id
           IN  /\ OneDigitRunSmaller(match(a), match(b)) => compared.natural < 0
               /\ OneDigitRunSmaller(match(b), match(a)) => compared.natural > 0
               /\ StrictPrefix(match(a), match(b)) => compared.natural < 0
               /\ (a = << "A", "A", "-", "2" >> /\ b = << "A", "A", "-", "1", "0" >>)
                      => compared.natural < 0
               /\ (a = << "A", "A", "-", "1" >> /\ b = << "A", "A", "-", "2" >>)
                      => compared.natural < 0

\* AA-02a and AA-10a, which differ in their run of digits, compared: 2 before 10
C18_Witness ==
    /\ compared.done
    /\ availableCards[1].id = << "A", "A", "-", "0", "2", "a" >>
    /\ availableCards[2].id = << "A", "A", "-", "1", "0", "a" >>
    /\ compared.natural < 0


\* C19: once the catalog load has failed the session stays degraded:
\* isLoading is false, the error is set, the catalog is empty, no fetch is
\* started again, and the deck is empty after every later operation.
C19_LoadFailureIsPermanent ==
    [][(pc = "failed" \/ pc' = "failed")
          => /\ pc' = "failed"
             /\ isLoading' = FALSE
             /\ error' = LoadCardsFailedMsg
             /\ availableCards' = << >>
             /\ deckCards' = << >>]_vars

\* after the failed load the user has imported the code A, which names a
\* card of cards.json: no card is found and the deck is still empty
C19_Witness ==
    /\ pc = "failed"
    /\ lastOp = Op("importDeckFromCode", idA)
    /\ alerts = << NoValidCardMsg >>
    /\ deckCards = << >>
    /\ error = LoadCardsFailedMsg

\* C20: when the saved deck cannot be parsed at startup, the deck is empty,
\* the deck name is the default, the failure is reported once (by onMounted
\* and by no later step), and a later addCardToDeck still adds its card.
C20_ParseFailureRecovers ==
    restoreFailed
        => /\ lastOp.op = "onMounted"
              => /\ deckCards = << >>
                 /\ deckName = DefaultDeckName
                 /\ alerts = << LoadDeckFailedMsg >>
           /\ lastOp.op # "onMounted" => alerts # << LoadDeckFailedMsg >>
           /\ (lastOp.op = "addCardToDeck" /\ prevCount < MaxCopies
                                           /\ alerts # << CapacityMsg >>)
                  => countOf(deckCards, lastOp.arg) = prevCount + 1


\* the codes whose tokens are the tokens of code in another order
PermutedCodes(code) ==
    LET tokens == split(code)
    IN  { join([i \in 1..Len(tokens) |-> tokens[p[i]]]) : p \in Permutations(1..Len(tokens)) }

\* C21: two deck codes whose tokens are permutations of each other decode
\* to the same set of (id, count) entries against the same catalog.
C21_DecodeIgnoresTokenOrder ==
    (lastOp.op = "decodeDeckCode" /\ Len(lastOp.arg) <= MaxCodeChars)
        => \A other \in PermutedCodes(lastOp.arg) :
               Pairs(decodeDeckCode(other)) = Pairs(decoded)

\* "B/A/A" has been decoded: B first, and the entries of "A/A/B"
C21_Witness ==
    /\ lastOp = Op("decodeDeckCode", << "B", Slash, "A", Slash, "A" >>)
    /\ Len(decoded) = 2
    /\ decoded[1].card = cardB
    /\ Pairs(decoded) = { << idA, 2 >>, << idB, 1 >> }
    /\ << "A", Slash, "A", Slash, "B" >> \in PermutedCodes(lastOp.arg)


\* the (id, count) pairs of a stored entries value
StoredPairs(simple) == { << simple[i].id, simple[i].count >> : i \in 1..Len(simple) }

\* C22: when a snapshot was stored, the fetch has succeeded, the user has
\* done nothing and the pending watchers have run, the stored entries still
\* hold every pair they held before startup whose id is in the catalog.
C22_StartupKeepsSnapshot ==
    (/\ lastOp.op = "loadCardsResolved"
     /\ Idle
     /\ ~touched
     /\ snapshot0.deckCards_k.present
     /\ snapshot0.deckCards_k.parses)
        => /\ localStorage.deckCards_k.present
           /\ localStorage.deckCards_k.parses
           /\ KnownPairs(snapshot0.deckCards_k.value, availableCards)
                  \subseteq StoredPairs(localStorage.deckCards_k.value)

\* the last task has changed the deck: a count is not what it was, an entry
\* was removed, or a code was imported
DeckMutated ==
    \/ /\ lastOp.op \in { "addCardToDeck", "incrementCardCount", "decrementCardCount" }
       /\ countOf(deckCards, lastOp.arg) # prevCount
    \/ lastOp.op = "removeCardFromDeck" /\ prevCount > 0
    \/ lastOp.op = "importDeckFromCode" /\ alerts = << >>

\* C23: after an add, increment, decrement, remove or successful import and
\* the run of the watchers, the entries stored under deckCards_k are the
\* {id, count} pairs of the deck entries in their order, and after a change
\* of the deck name the name stored under deckName_k is the deck name.
C23_SnapshotFollowsDeck ==
    /\ (Idle /\ DeckMutated)
          => /\ localStorage.deckCards_k.present
             /\ localStorage.deckCards_k.parses
             /\ localStorage.deckCards_k.value =
                    [i \in 1..Len(deckCards) |->
                        [id |-> deckCards[i].card.id, count |-> deckCards[i].count]]
    /\ (Idle /\ lastOp.op = "setDeckName" /\ lastOp.arg # << deckName >>)
          => /\ localStorage.deckName_k.present
             /\ localStorage.deckName_k.value = deckName

\* card B has been tapped for the second time in a deck that holds card A
\* too, the watcher has run, and both entries are stored
C23_Witness ==
    /\ Idle
    /\ lastOp = Op("addCardToDeck", idB)
    /\ prevCount = 1
    /\ Pairs(deckCards) = { << idA, 1 >>, << idB, 2 >> }
    /\ StoredPairs(localStorage.deckCards_k.value) = Pairs(deckCards)
    /\ deckName = "My deck"
    /\ localStorage.deckName_k = NameItem("My deck")


\* the places of a kind in the 4 kinds, and of the types of a card in the 9
\* types
KindPlaces(card) == { i \in 1..Len(allKinds) : allKinds[i] = card.kind }
TypePlaces(card) == { i \in 1..Len(allTypes) : allTypes[i] \in TypesOf(card) }
Lowest(S) == CHOOSE i \in S : \A j \in S : i <= j

\* C24: kindSort orders two cards by the places of their kinds in the 4
\* kinds, a kind that is not one of them before every kind that is;
\* typeSort orders them by the lowest place among the types each carries,
\* a card that carries none of the 9 types after every card that does.
C24_KindAndTypeOrder ==
    compared.done
        => LET a == availableCards[1]
               b == availableCards[2]
               ka == KindPlaces(a)
               kb == KindPlaces(b)
               ta == TypePlaces(a)
               tb == TypePlaces(b)
           IN  /\ (ka # { } /\ kb # { })
                      => Sign(compared.kind) = Sign(Lowest(ka) - Lowest(kb))
               /\ (ka = { } /\ kb # { }) => compared.kind < 0
               /\ (ka # { } /\ kb = { }) => compared.kind > 0
               /\ (ka = { } /\ kb = { }) => compared.kind = 0
               /\ (ta # { } /\ tb # { })
                      => Sign(compared.type) = Sign(Lowest(ta) - Lowest(tb))
               /\ (ta # { } /\ tb = { }) => compared.type < 0
               /\ (ta = { } /\ tb # { }) => compared.type > 0
               /\ (ta = { } /\ tb = { }) => compared.type = 0

\* a card of an unknown kind whose known type is listed second, compared
\* with an Artist card without a type: before it by kind and by type
C24_Witness ==
    /\ compared.done
    /\ availableCards[1].kind = "Token"
    /\ availableCards[2].kind = "Artist"
    /\ availableCards[1].type = TypeList(<< "odd", "instant" >>)
    /\ availableCards[2].type = NoType
    /\ compared.kind < 0
    /\ compared.type < 0


\* C25: the comparator of kind, then type, then naturalSort on the id gives
\* 0 for a card and itself, results of opposite signs for (a, b) and (b, a),
\* and is transitive (for every third card c of the set), also for ids that
\* mix runs of digits, runs that start in upper case and runs that start in
\* lower case.
C25_ComparatorLaws ==
    (compared.done /\ compared.laws # << >>)
        => /\ compared.laws.aa = 0
           /\ Sign(compared.laws.ab) = 0 - Sign(compared.laws.ba)
           /\ \A c \in LawCards :
                  (/\ compared.laws.ab <= 0
                   /\ poolComparator(availableCards[2], c) <= 0)
                      => poolComparator(availableCards[1], c) <= 0

\* A10 before a2 (upper case first); with a2 before a10 (2 before 10), A10
\* is before a10 too
C25_Witness ==
    /\ compared.done
    /\ availableCards[1].id = << "A", "1", "0" >>
    /\ availableCards[2].id = << "a", "2" >>
    /\ compared.laws.ab < 0
    /\ compared.laws.ba > 0
    /\ \E c \in LawCards :
          /\ c.id = << "a", "1", "0" >>
          /\ poolComparator(availableCards[2], c) < 0
          /\ poolComparator(availableCards[1], c) < 0

====
